---- MODULE Spec2Model ----
(***************************************************************************)
(* Model of graph.py: a pooled data-access helper (get_data_as_dataframe)  *)
(* and five chart functions over the single fact table "bribe", selected   *)
(* by the dropdown callback update_graph.                                   *)
(*                                                                         *)
(* Library behaviour the code relies on is modelled by what the library    *)
(* does at the call site: psycopg2's SimpleConnectionPool (getconn raises  *)
(* PoolError when maxconn connections are in use, putconn keeps at most    *)
(* minconn idle connections), PostgreSQL's GROUP BY / ORDER BY / LIMIT,    *)
(* pandas' cut (right-closed, left-open intervals, NaN outside them),      *)
(* value_counts on a categorical column (one row per category, NaN left    *)
(* out), to_datetime(errors='coerce'), dropna, groupby and sort_values.    *)
(***************************************************************************)
EXTENDS Integers, Sequences, FiniteSets, TLC

VARIABLES
    table,      \* rows of the fact table "bribe"
    idle,       \* connection_pool._pool: number of idle pooled connections
    used,       \* connection_pool._used: number of borrowed connections
    pc,         \* position of the (sequential) request being served
    value,      \* dropdown value of the request
    top_n,      \* LIMIT parameter of the request (0 when the query has none)
    conn,       \* local conn of get_data_as_dataframe: "None" or "conn"
    exc,        \* exception in flight: "none" or its kind
    df,         \* DataFrame returned by get_data_as_dataframe
    fig,        \* what the chart function / callback returned
    executes,   \* cur.execute calls made by the current request
    queries,    \* get_data_as_dataframe calls made by the current request
    calls,      \* requests served so far
    failed,     \* requests so far that ended in an exception
    threads     \* concurrent requests: how many are at each position

vars == <<table, idle, used, pc, value, top_n, conn, exc, df, fig,
          executes, queries, calls, failed, threads>>

(***************************************************************************)
(* Bounds of the model.                                                    *)
(***************************************************************************)
MaxRows == 4        \* rows of the fact table, amount distribution
MaxGroupRows == 3   \* rows of the fact table, grouped totals
MaxDates == 4       \* rows of the fact table, reports over time
MaxDashRows == 2    \* rows of the fact table, dashboard
MaxTopN == 2        \* largest top_n a caller passes besides the defaults
MaxCalls == 3       \* sequential requests to the dashboard
MaxThreads == 16    \* concurrent requests sharing the pool

(***************************************************************************)
(* Generic helpers.                                                        *)
(***************************************************************************)
Range(s) == {s[i] : i \in 1..Len(s)}

SeqsUpTo(S, n) == UNION {[1..k -> S] : k \in 0..n}

RECURSIVE SumSeq(_)
SumSeq(s) == IF s = <<>> THEN 0 ELSE Head(s) + SumSeq(Tail(s))

Min(a, b) == IF a <= b THEN a ELSE b

\* Lexicographic order on sequences of integers (a string is the sequence of its
\* character codes, an integer key a sequence of length one).
RECURSIVE LexLess(_, _)
LexLess(a, b) ==
    IF b = <<>> THEN FALSE
    ELSE IF a = <<>> THEN TRUE
    ELSE IF Head(a) # Head(b) THEN Head(a) < Head(b)
    ELSE LexLess(Tail(a), Tail(b))

\* Stable insertion sort of <<key, element>> pairs, ascending by key.
RECURSIVE InsertSorted(_, _)
InsertSorted(p, s) ==
    IF s = <<>> THEN <<p>>
    ELSE IF LexLess(p[1], Head(s)[1]) THEN <<p>> \o s
    ELSE <<Head(s)>> \o InsertSorted(p, Tail(s))

RECURSIVE SortPairs(_)
SortPairs(s) ==
    IF s = <<>> THEN <<>>
    ELSE InsertSorted(s[Len(s)], SortPairs(SubSeq(s, 1, Len(s) - 1)))

\* s sorted ascending by the keys k (k[i] is the key of s[i]), ties in input order.
SortByKey(s, k) ==
    LET sorted == SortPairs([i \in 1..Len(s) |-> <<k[i], s[i]>>])
    IN  [i \in 1..Len(s) |-> sorted[i][2]]

(***************************************************************************)
(* DataFrames: a sequence of rows (records).  pd.DataFrame() has no rows   *)
(* and no columns; pd.DataFrame(rows) takes its columns from the rows.     *)
(***************************************************************************)
None == [kind |-> "None"]

EmptyDataFrame == [columns |-> {}, rows |-> <<>>]

DataFrame(rows) ==
    IF rows = <<>> THEN EmptyDataFrame
    ELSE [columns |-> DOMAIN rows[1], rows |-> rows]

Empty(d) == d.rows = <<>> \/ d.columns = {}

Figure(kind, x, y, data) == [kind |-> kind, x |-> x, y |-> y, data |-> data]

(***************************************************************************)
(* plot_bribe_amount_distribution                                          *)
(***************************************************************************)
\* The finite bin edges; the thirteenth edge is float('inf').
bin_edges == <<0, 500, 1000, 1500, 2000, 3000, 5000, 10000, 20000, 30000, 40000, 50000>>

bin_labels == <<"1-500", "501-1000", "1001-1500", "1501-2000", "2001-3000",
                "3001-5000", "5001-10000", "10001-20000", "20001-30000",
                "30001-40000", "40001-50000", ">50000">>

NaN == "NaN"

\* v <= bin_edges[i], the edge after the last finite one being +inf.
LeqEdge(v, i) == IF i > Len(bin_edges) THEN TRUE ELSE v <= bin_edges[i]

\* The intervals (bin_edges[i], bin_edges[i+1]] holding v, i.e. right=True
\* and include_lowest=False.
BinsOf(v) == {i \in 1..Len(bin_labels) : bin_edges[i] < v /\ LeqEdge(v, i + 1)}

\* Variant of Cut with left-closed intervals [bin_edges[i], bin_edges[i+1]).
CutLeftClosed(v) ==
    LET bins == {i \in 1..Len(bin_labels) :
                    bin_edges[i] <= v /\ (i = Len(bin_labels) \/ v < bin_edges[i + 1])}
    IN  IF bins = {} THEN NaN ELSE bin_labels[CHOOSE i \in bins : TRUE]

\* pd.cut(..., bins=bin_edges, labels=bin_labels, right=True) on one value.
Cut(v) ==
    IF BinsOf(v) = {} THEN NaN ELSE bin_labels[CHOOSE i \in BinsOf(v) : TRUE]

LabelIndex(l) == CHOOSE i \in 1..Len(bin_labels) : bin_labels[i] = l

\* Variant of ValueCounts that keeps only the categories that occur.
ValueCountsObserved(ranges) ==
    LET count(l) == Cardinality({i \in 1..Len(ranges) : ranges[i] = l})
        seen == SelectSeq(bin_labels, LAMBDA l : count(l) > 0)
        rows == [i \in 1..Len(seen) |->
                    [range |-> seen[i], reports |-> count(seen[i])]]
    IN  SortByKey(rows, [i \in 1..Len(rows) |-> <<0 - rows[i].reports>>])

\* Series.value_counts() of the categorical column: one row per category
\* (unobserved categories with count 0), NaN left out, largest count first.
ValueCounts(ranges) ==
    LET count(l) == Cardinality({i \in 1..Len(ranges) : ranges[i] = l})
        rows == [i \in 1..Len(bin_labels) |->
                    [range |-> bin_labels[i], reports |-> count(bin_labels[i])]]
    IN  SortByKey(rows, [i \in 1..Len(rows) |-> <<0 - rows[i].reports>>])

\* sort_values on the ordered categorical 'Bribe Amount Range'.
SortByRange(rows) ==
    SortByKey(rows, [i \in 1..Len(rows) |-> <<LabelIndex(rows[i].range)>>])

\* The function after its query: None for an empty frame, else the bar chart
\* of the counts per range.
plot_bribe_amount_distribution(d) ==
    IF Empty(d) THEN None
    ELSE LET ranges == [i \in 1..Len(d.rows) |-> Cut(d.rows[i].bribe_amt)]
         IN  Figure("bar", "range", "reports", SortByRange(ValueCounts(ranges)))

(***************************************************************************)
(* The three grouped totals.                                               *)
(***************************************************************************)
\* SELECT bribe_amt FROM bribe
SelectBribeAmt(t) == [i \in 1..Len(t) |-> [bribe_amt |-> t[i].bribe_amt]]

\* One result row of SELECT col, SUM(bribe_amt) AS total_amount ... GROUP BY col.
GroupRow(t, col, k) ==
    LET amts == SelectSeq(t, LAMBDA r : r[col] = k)
        sum == SumSeq([i \in 1..Len(amts) |-> amts[i].bribe_amt])
    IN  [c \in {col, "total_amount"} |-> IF c = col THEN k ELSE sum]

GroupRows(t, col) == {GroupRow(t, col, k) : k \in {t[i][col] : i \in 1..Len(t)}}

\* Variant of OrderByTotalDesc: the groups in any order.
OrderByNothing(G) ==
    {s \in [1..Cardinality(G) -> G] : \A i, j \in DOMAIN s : i # j => s[i] # s[j]}

\* ORDER BY total_amount DESC: every order of the groups with non-increasing
\* totals (the database breaks ties as it likes).
OrderByTotalDesc(G) ==
    {s \in [1..Cardinality(G) -> G] :
        /\ \A i, j \in DOMAIN s : i # j => s[i] # s[j]
        /\ \A i \in 1..(Len(s) - 1) : s[i].total_amount >= s[i + 1].total_amount}

\* Variant of Limit that returns every row.
LimitIgnored(rows, n) == rows

\* LIMIT n
Limit(rows, n) == SubSeq(rows, 1, Min(n, Len(rows)))

\* The possible results of the grouped-total query on column col; the state
\* query has no LIMIT.
GroupedTotalQuery(t, col, limited, n) ==
    {IF limited THEN Limit(s, n) ELSE s : s \in OrderByTotalDesc(GroupRows(t, col))}

\* Variant of PlotGroupedTotal without the check for an empty frame.
PlotGroupedTotalUnchecked(d, col) == Figure("bar", col, "total_amount", d.rows)

\* The functions after their query: None for an empty frame or a missing
\* column, else the bar chart of the frame as the query ordered it.
PlotGroupedTotal(d, col) ==
    IF Empty(d) \/ col \notin d.columns \/ "total_amount" \notin d.columns
    THEN None
    ELSE Figure("bar", col, "total_amount", d.rows)

plot_total_bribe_amount_by_state(d) == PlotGroupedTotal(d, "state_ut")

plot_top_departments_by_bribe_amount(d) == PlotGroupedTotal(d, "dept")

plot_top_districts_by_bribe_amount(d) == PlotGroupedTotal(d, "district")

(***************************************************************************)
(* plot_bribes_over_time                                                   *)
(***************************************************************************)
\* A stored doi is NULL, text that is no date at all, or text of the form
\* year-month-day (whose month and day need not exist; the year has four
\* digits and lies in the range pandas' timestamps cover).
NullDoi == [kind |-> "null", y |-> 0, m |-> 0, d |-> 0]

JunkDoi == [kind |-> "junk", y |-> 0, m |-> 0, d |-> 0]

Ymd(y, m, d) == [kind |-> "ymd", y |-> y, m |-> m, d |-> d]

NaT == [kind |-> "NaT", y |-> 0, m |-> 0, d |-> 0]

\* SELECT doi FROM bribe WHERE doi IS NOT NULL
SelectDoi(t) ==
    LET rows == SelectSeq(t, LAMBDA r : r.doi.kind # "null")
    IN  [i \in 1..Len(rows) |-> [doi |-> rows[i].doi]]

IsLeap(y) == (y % 4 = 0 /\ y % 100 # 0) \/ y % 400 = 0

DaysInMonth(y, m) ==
    IF m = 2 THEN (IF IsLeap(y) THEN 29 ELSE 28)
    ELSE IF m \in {4, 6, 9, 11} THEN 30 ELSE 31

\* pd.to_datetime(..., errors='coerce') on one value: NaT unless it is a date.
ToDatetime(v) ==
    IF /\ v.kind = "ymd"
       /\ v.m \in 1..12
       /\ v.d \in 1..DaysInMonth(v.y, v.m)
    THEN v ELSE NaT

Digit(n) == 48 + n

\* Variant of MonthYear without the zero padding of the month.
MonthYearUnpadded(ts) ==
    <<Digit(ts.y \div 1000), Digit((ts.y \div 100) % 10), Digit((ts.y \div 10) % 10),
      Digit(ts.y % 10), 45>>
    \o (IF ts.m >= 10 THEN <<Digit(ts.m \div 10)>> ELSE <<>>) \o <<Digit(ts.m % 10)>>

\* dt.to_period('M').astype(str): the characters of "YYYY-MM".
MonthYear(ts) ==
    <<Digit(ts.y \div 1000), Digit((ts.y \div 100) % 10), Digit((ts.y \div 10) % 10),
      Digit(ts.y % 10), 45, Digit(ts.m \div 10), Digit(ts.m % 10)>>

\* dropna(subset=['doi'])
DropNaT(stamps) == SelectSeq(stamps, LAMBDA ts : ts # NaT)

\* groupby('month_year').size().reset_index(name='count'), then sort_values:
\* one row per label, ascending by label.
MonthlyCounts(labels) ==
    LET keys == Range(labels)
        row(l) == [month_year |-> l,
                   count |-> Cardinality({i \in 1..Len(labels) : labels[i] = l})]
        anyOrder == CHOOSE s \in [1..Cardinality(keys) -> keys] : Range(s) = keys
        rows == [i \in 1..Len(anyOrder) |-> row(anyOrder[i])]
    IN  SortByKey(rows, [i \in 1..Len(rows) |-> rows[i].month_year])

plot_bribes_over_time(d) ==
    IF Empty(d) \/ "doi" \notin d.columns THEN None
    ELSE LET stamps == DropNaT([i \in 1..Len(d.rows) |-> ToDatetime(d.rows[i].doi)])
         IN  IF stamps = <<>> THEN None
             ELSE Figure("line", "month_year", "count",
                         MonthlyCounts([i \in 1..Len(stamps) |-> MonthYear(stamps[i])]))

(***************************************************************************)
(* The connection pool and get_data_as_dataframe.                          *)
(***************************************************************************)
minconn == 1

maxconn == 15

DefaultTopDepartments == 15

DefaultTopDistricts == 20

Values == {"Bribe distribution", "State wise Bribe data", "Top 15 Departments",
           "Top 20 Districts", "Bribes over time"}

NoThreads == [p \in {"start", "connecting", "execute", "finally", "done", "exhausted"} |-> 0]

\* The possible results of the query that the chart function for v issues.
QueryResults(v, n, t) ==
    CASE v = "Bribe distribution" -> {SelectBribeAmt(t)}
      [] v = "State wise Bribe data" -> GroupedTotalQuery(t, "state_ut", FALSE, n)
      [] v = "Top 15 Departments" -> GroupedTotalQuery(t, "dept", TRUE, n)
      [] v = "Top 20 Districts" -> GroupedTotalQuery(t, "district", TRUE, n)
      [] v = "Bribes over time" -> {SelectDoi(t)}

\* What the chart function for v makes of the frame it queried.
Plot(v, d) ==
    CASE v = "Bribe distribution" -> plot_bribe_amount_distribution(d)
      [] v = "State wise Bribe data" -> plot_total_bribe_amount_by_state(d)
      [] v = "Top 15 Departments" -> plot_top_departments_by_bribe_amount(d)
      [] v = "Top 20 Districts" -> plot_top_districts_by_bribe_amount(d)
      [] v = "Bribes over time" -> plot_bribes_over_time(d)

\* update_graph's return value: the figure, or {} when the chart function
\* returned None.
EmptyDict == [kind |-> "{}"]

CallbackOutput == IF fig = None THEN EmptyDict ELSE fig

\* update_graph(v) up to the call of connection_pool.getconn(): the chart
\* function builds its statement and enters get_data_as_dataframe.
UpdateGraph(v) ==
    /\ pc \in {"idle", "returned", "raised"}
    /\ calls < MaxCalls
    /\ value' = v
    /\ top_n' = CASE v = "Top 15 Departments" -> DefaultTopDepartments
                  [] v = "Top 20 Districts" -> DefaultTopDistricts
                  [] OTHER -> 0
    /\ fig' = None
    /\ df' = EmptyDataFrame
    /\ conn' = "None"
    /\ exc' = "none"
    /\ executes' = 0
    /\ queries' = 1
    /\ pc' = "getconn"
    /\ UNCHANGED <<table, idle, used, calls, failed, threads>>

\* connection_pool.getconn(): an idle connection is popped; with none idle
\* and maxconn in use PoolError is raised; otherwise a connection is opened.
GetConn ==
    /\ pc = "getconn"
    /\ \/ /\ idle > 0
          /\ idle' = idle - 1
          /\ used' = used + 1
          /\ conn' = "conn"
          /\ pc' = "execute"
          /\ exc' = exc
       \/ /\ idle = 0
          /\ used = maxconn
          /\ exc' = "PoolError"
          /\ pc' = "finally"
          /\ UNCHANGED <<idle, used, conn>>
       \/ /\ idle = 0
          /\ used # maxconn
          /\ pc' = "connecting"
          /\ UNCHANGED <<idle, used, conn, exc>>
    /\ UNCHANGED <<table, value, top_n, df, fig, executes, queries, calls, failed, threads>>

\* psycopg2.connect inside getconn: the new connection is entered in _used,
\* or the connection attempt raises.
Connect ==
    /\ pc = "connecting"
    /\ \/ /\ used' = used + 1
          /\ conn' = "conn"
          /\ pc' = "execute"
          /\ exc' = exc
       \/ /\ exc' = "OperationalError"
          /\ pc' = "finally"
          /\ UNCHANGED <<used, conn>>
    /\ UNCHANGED <<table, idle, value, top_n, df, fig, executes, queries, calls, failed, threads>>

\* Variant of Execute that runs a failed statement again.
ExecuteRetrying ==
    /\ pc = "execute"
    /\ executes' = executes + 1
    /\ \/ \E rows \in QueryResults(value, top_n, table) :
            /\ df' = DataFrame(rows)
            /\ pc' = "finally"
       \/ /\ executes < 2
          /\ pc' = "execute"
          /\ df' = df
    /\ UNCHANGED <<table, idle, used, value, top_n, conn, exc, fig, queries, calls, failed, threads>>

\* cur.execute and cur.fetchall: the rows become the frame, or the statement
\* raises (a query error, or the server connection is lost).
Execute ==
    /\ pc = "execute"
    /\ executes' = executes + 1
    /\ \/ \E rows \in QueryResults(value, top_n, table) :
            /\ df' = DataFrame(rows)
            /\ pc' = "finally"
            /\ UNCHANGED <<exc, conn>>
       \/ /\ exc' = "DatabaseError"
          /\ pc' = "finally"
          /\ UNCHANGED <<df, conn>>
       \/ /\ exc' = "OperationalError"
          /\ conn' = "lost"
          /\ pc' = "finally"
          /\ df' = df
    /\ UNCHANGED <<table, idle, used, value, top_n, fig, queries, calls, failed, threads>>

\* connection_pool.putconn(conn): the connection leaves _used; it is kept
\* idle (rolled back if need be) while fewer than minconn are idle and its
\* server connection is alive, and closed otherwise.
PutConn ==
    /\ used' = used - 1
    /\ idle' = IF idle < minconn /\ conn = "conn" THEN idle + 1 ELSE idle

\* Variant of Finally that returns the connection only when nothing was raised.
FinallyOnSuccessOnly ==
    /\ pc = "finally"
    /\ IF conn # "None" /\ exc = "none" THEN PutConn ELSE UNCHANGED <<idle, used>>
    /\ conn' = conn
    /\ IF exc # "none"
       THEN /\ pc' = "raised"
            /\ fig' = [kind |-> "exception", exc |-> exc]
            /\ calls' = calls + 1
            /\ failed' = failed + 1
       ELSE /\ pc' = "post"
            /\ UNCHANGED <<fig, calls, failed>>
    /\ UNCHANGED <<table, value, top_n, exc, df, executes, queries, threads>>

\* The finally clause of get_data_as_dataframe, then its return or the
\* exception leaving it, the chart function and update_graph uncaught.
Finally ==
    /\ pc = "finally"
    /\ IF conn # "None" THEN PutConn ELSE UNCHANGED <<idle, used>>
    /\ conn' = conn
    /\ IF exc # "none"
       THEN /\ pc' = "raised"
            /\ fig' = [kind |-> "exception", exc |-> exc]
            /\ calls' = calls + 1
            /\ failed' = failed + 1
       ELSE /\ pc' = "post"
            /\ UNCHANGED <<fig, calls, failed>>
    /\ UNCHANGED <<table, value, top_n, exc, df, executes, queries, threads>>

\* The chart function after get_data_as_dataframe returned, and update_graph's
\* return.
Post ==
    /\ pc = "post"
    /\ fig' = Plot(value, df)
    /\ pc' = "returned"
    /\ calls' = calls + 1
    /\ UNCHANGED <<table, idle, used, value, top_n, conn, exc, df, executes, queries, failed, threads>>

(***************************************************************************)
(* The dashboard serving requests one after another.                       *)
(***************************************************************************)
DashRows == {
    [bribe_amt |-> 500, state_ut |-> "Goa", dept |-> "Police", district |-> "North", doi |-> Ymd(2023, 1, 15)],
    [bribe_amt |-> 0, state_ut |-> "Goa", dept |-> "Revenue", district |-> "South", doi |-> JunkDoi],
    [bribe_amt |-> 60000, state_ut |-> "Kerala", dept |-> "Police", district |-> "Idukki", doi |-> NullDoi]}

InitCall ==
    /\ idle = minconn
    /\ used = 0
    /\ pc = "idle"
    /\ value = "Bribe distribution"
    /\ top_n = 0
    /\ conn = "None"
    /\ exc = "none"
    /\ df = EmptyDataFrame
    /\ fig = EmptyDict
    /\ executes = 0
    /\ queries = 0
    /\ calls = 0
    /\ failed = 0
    /\ threads = NoThreads

Init ==
    /\ table \in SeqsUpTo(DashRows, MaxDashRows)
    /\ InitCall

Next ==
    \/ \E v \in Values : UpdateGraph(v)
    \/ GetConn
    \/ Connect
    \/ Execute
    \/ Finally
    \/ Post

Spec == Init /\ [][Next]_vars

(***************************************************************************)
(* The chart functions applied to a table, the query succeeding.           *)
(***************************************************************************)
TopNs == (0..MaxTopN) \cup {DefaultTopDepartments, DefaultTopDistricts}

\* A chart function from its query to its return: the rows the statement
\* yields become the frame, and the function's result is made of it.
CallChart(v, n) ==
    /\ pc \in {"idle", "returned"}
    /\ \E rows \in QueryResults(v, n, table) :
        /\ df' = DataFrame(rows)
        /\ fig' = Plot(v, DataFrame(rows))
    /\ executes' = 1
    /\ queries' = 1
    /\ calls' = 1
    /\ pc' = "returned"
    /\ UNCHANGED <<table, idle, used, conn, exc, failed, threads>>

DistributionCall ==
    /\ value' = "Bribe distribution"
    /\ top_n' = 0
    /\ CallChart("Bribe distribution", 0)

StateTotalsCall ==
    /\ value' = "State wise Bribe data"
    /\ top_n' = 0
    /\ CallChart("State wise Bribe data", 0)

TopDepartmentsCall(n) ==
    /\ value' = "Top 15 Departments"
    /\ top_n' = n
    /\ CallChart("Top 15 Departments", n)

TopDistrictsCall(n) ==
    /\ value' = "Top 20 Districts"
    /\ top_n' = n
    /\ CallChart("Top 20 Districts", n)

OverTimeCall ==
    /\ value' = "Bribes over time"
    /\ top_n' = 0
    /\ CallChart("Bribes over time", 0)

\* Amount distribution: tables of amounts at and around the bin edges.
AmountSamples == {0 - 1, 0, 1, 500, 501, 2000, 2001, 50000, 50001}

AmountRow(a) ==
    [bribe_amt |-> a, state_ut |-> "Goa", dept |-> "Police", district |-> "North",
     doi |-> NullDoi]

InitDist ==
    /\ table \in {[i \in 1..Len(a) |-> AmountRow(a[i])] : a \in SeqsUpTo(AmountSamples, MaxRows)}
    /\ InitCall

NextDist == DistributionCall

SpecDist == InitDist /\ [][NextDist]_vars

\* Grouped totals: tables over three states, two departments and three
\* districts, with amounts that give some groups equal totals.
GroupKeys == {"Goa", "Kerala", "Assam"}

GroupAmounts == {100, 200, 300}

GroupRowOf(k, a) ==
    [bribe_amt |-> a, state_ut |-> k,
     dept |-> IF k = "Goa" THEN "Police" ELSE "Revenue",
     district |-> CASE k = "Goa" -> "North" [] k = "Kerala" -> "Idukki" [] OTHER -> "Cachar",
     doi |-> NullDoi]

InitGroup ==
    /\ table \in SeqsUpTo({GroupRowOf(k, a) : k \in GroupKeys, a \in GroupAmounts}, MaxGroupRows)
    /\ InitCall

NextGroup ==
    \/ StateTotalsCall
    \/ \E n \in TopNs : TopDepartmentsCall(n)
    \/ \E n \in TopNs : TopDistrictsCall(n)

SpecGroup == InitGroup /\ [][NextGroup]_vars

\* Reports over time: tables of dates, some of them no dates.
DoiSamples == {Ymd(2023, 1, 15), JunkDoi, Ymd(2023, 1, 20), Ymd(2023, 2, 1),
               Ymd(2023, 10, 5), Ymd(2022, 12, 31), Ymd(2023, 2, 30), NullDoi}

DoiRow(v) ==
    [bribe_amt |-> 100, state_ut |-> "Goa", dept |-> "Police", district |-> "North",
     doi |-> v]

InitTime ==
    /\ table \in {[i \in 1..Len(a) |-> DoiRow(a[i])] : a \in SeqsUpTo(DoiSamples, MaxDates)}
    /\ InitCall

NextTime == OverTimeCall

SpecTime == InitTime /\ [][NextTime]_vars

(***************************************************************************)
(* Properties of the dashboard (specification Spec).                       *)
(***************************************************************************)
\* C1: a call of get_data_as_dataframe that obtained a connection has returned
\* it once the call is over, whether it returned rows, an empty frame or
\* raised: outside a call no connection is borrowed, so failing calls never
\* use up the pool and a later call can always obtain a connection.
C1_ConnectionReturnedOnEveryPath ==
    /\ pc \in {"idle", "post", "returned", "raised"} => used = 0
    /\ pc \in {"execute", "finally"} /\ conn # "None" => used = 1
    /\ used < maxconn
    /\ exc # "PoolError"

\* C1 witness: the last of several failing calls, whose execute raised with
\* the connection in hand, is over.
C1_Witness ==
    /\ pc = "raised"
    /\ exc \in {"DatabaseError", "OperationalError"}
    /\ conn # "None"
    /\ failed = MaxCalls
    /\ used = 0

\* The columns the chart function for v expects in its frame.
ExpectedColumns(v) ==
    CASE v = "Bribe distribution" -> {"bribe_amt"}
      [] v = "State wise Bribe data" -> {"state_ut", "total_amount"}
      [] v = "Top 15 Departments" -> {"dept", "total_amount"}
      [] v = "Top 20 Districts" -> {"district", "total_amount"}
      [] v = "Bribes over time" -> {"doi"}

\* C3: when the query returns zero rows (in particular when the table is
\* empty) the chart function returns None, for each of the five functions;
\* so it does when the frame lacks a column the function expects.
C3_NoDataSignal ==
    /\ table = <<>> /\ pc \in {"post", "returned"} => df = EmptyDataFrame
    /\ pc = "returned" /\ df.rows = <<>> => fig = None
    /\ pc = "returned" /\ ~(ExpectedColumns(value) \subseteq df.columns) => fig = None

\* C3 witness: a grouped-total function has returned None for an empty table.
C3_Witness ==
    /\ table = <<>>
    /\ pc = "returned"
    /\ value = "Top 20 Districts"
    /\ "district" \notin df.columns
    /\ fig = None

\* C10: an error inside get_data_as_dataframe leaves it as the exception that
\* was raised: the statement is executed at most once per call, a call that
\* raised never goes on to return a frame or a figure, and every request
\* makes exactly one call of get_data_as_dataframe.
C10_ErrorPropagatesNoRetry ==
    /\ executes <= 1
    /\ pc # "idle" => queries = 1
    /\ exc # "none" => pc \in {"finally", "raised"}
    /\ pc = "raised" => exc # "none" /\ fig = [kind |-> "exception", exc |-> exc]
    /\ pc \in {"post", "returned"} => executes = 1

\* C10 witness: a query error has reached the caller after one execute.
C10_Witness ==
    /\ pc = "raised"
    /\ exc = "DatabaseError"
    /\ executes = 1
    /\ fig = [kind |-> "exception", exc |-> "DatabaseError"]

(***************************************************************************)
(* Properties of the amount distribution (specification SpecDist).         *)
(***************************************************************************)
Amounts == [i \in 1..Len(table) |-> table[i].bribe_amt]

HowMany(P(_)) == Cardinality({i \in 1..Len(table) : P(table[i].bribe_amt)})

DistributionReturned == pc = "returned" /\ value = "Bribe distribution" /\ fig # None

\* The count the returned chart shows for the range labelled l (0 if the chart
\* has no bar for it).
Reports(l) ==
    LET rows == SelectSeq(fig.data, LAMBDA r : r.range = l)
    IN  SumSeq([i \in 1..Len(rows) |-> rows[i].reports])

TotalReports == SumSeq([i \in 1..Len(fig.data) |-> fig.data[i].reports])

\* C2: bucket assignment is total and right-inclusive: every non-negative
\* amount, 0 included, is counted in exactly one bucket, and an amount equal to
\* a boundary is counted in the bucket below it (500 in '1-500', 501 in
\* '501-1000').
C2_TotalRightInclusive ==
    DistributionReturned =>
        /\ TotalReports = HowMany(LAMBDA a : a >= 0)
        /\ Reports("1-500") = HowMany(LAMBDA a : a >= 0 /\ a <= 500)
        /\ Reports("501-1000") = HowMany(LAMBDA a : a > 500 /\ a <= 1000)
        /\ Reports("1501-2000") = HowMany(LAMBDA a : a > 1500 /\ a <= 2000)
        /\ Reports("40001-50000") = HowMany(LAMBDA a : a > 40000 /\ a <= 50000)

\* C4 as stated: the emitted buckets are exactly those that hold at least one
\* amount, in ascending boundary order.
C4_ZeroBucketsDropped ==
    DistributionReturned =>
        /\ \A i \in 1..Len(fig.data) : fig.data[i].reports > 0
        /\ \A i \in 1..(Len(fig.data) - 1) :
            LabelIndex(fig.data[i].range) < LabelIndex(fig.data[i + 1].range)

\* C4 (amended): the chart has one bucket for each of the twelve ranges, in
\* ascending boundary order whatever the row order, each with the number of
\* amounts in (lower edge, upper edge]; buckets with count zero are kept.
\* Amounts [500, 501, 2000, 2001] give count 1 for '1-500', '501-1000',
\* '1501-2000' and '2001-3000' and count 0 for the other eight.
C4_AllBucketsInBoundaryOrder ==
    DistributionReturned =>
        /\ Len(fig.data) = Len(bin_labels)
        /\ \A i \in 1..Len(fig.data) :
            /\ fig.data[i].range = bin_labels[i]
            /\ fig.data[i].reports =
                 HowMany(LAMBDA a : bin_edges[i] < a /\ (i = Len(bin_labels) \/ a <= bin_edges[i + 1]))
        /\ Amounts = <<500, 501, 2000, 2001>> =>
             [i \in 1..Len(fig.data) |-> fig.data[i].reports] = <<1, 1, 0, 1, 1, 0, 0, 0, 0, 0, 0, 0>>

\* C4 witness: the chart for amounts [500, 501, 2000, 2001] has been returned,
\* with a zero-count bucket between the occupied ones.
C4_Witness ==
    /\ DistributionReturned
    /\ Amounts = <<500, 501, 2000, 2001>>
    /\ fig.data[3] = [range |-> "1001-1500", reports |-> 0]

\* C5 as stated: an amount below 0 or above 50000 is counted in '>50000'.
C5_OutOfRangeInLastBucket ==
    DistributionReturned =>
        Reports(">50000") = HowMany(LAMBDA a : a < 0 \/ a > 50000)

\* C5 (amended): an amount above 50000 is counted in the last bucket
\* '>50000'; an amount below 0 is counted in no bucket at all.
C5_AboveTopInLastBucketNegativeDropped ==
    DistributionReturned =>
        /\ Reports(">50000") = HowMany(LAMBDA a : a > 50000)
        /\ TotalReports <= Len(table) - HowMany(LAMBDA a : a < 0)

\* C5 witness: a chart has been returned for a table with an amount below 0
\* and an amount above 50000.
C5_Witness ==
    /\ DistributionReturned
    /\ 0 - 1 \in Range(Amounts)
    /\ 50001 \in Range(Amounts)
    /\ Reports(">50000") = 1

(***************************************************************************)
(* Properties of the grouped totals (specification SpecGroup).             *)
(***************************************************************************)
GroupColumn ==
    CASE value = "State wise Bribe data" -> "state_ut"
      [] value = "Top 15 Departments" -> "dept"
      [] value = "Top 20 Districts" -> "district"
      [] OTHER -> "none"

GroupedReturned == pc = "returned" /\ GroupColumn # "none" /\ fig # None

\* The sum of the amounts of the table's rows whose GroupColumn is k.
TableTotal(k) ==
    LET rows == SelectSeq(table, LAMBDA r : r[GroupColumn] = k)
    IN  SumSeq([i \in 1..Len(rows) |-> rows[i].bribe_amt])

TableKeys == {table[i][GroupColumn] : i \in 1..Len(table)}

ReturnedKeys == {fig.data[i][GroupColumn] : i \in 1..Len(fig.data)}

\* Each returned row is a distinct key of the table with the sum of its amounts.
RowsAreGroupSums ==
    /\ \A i \in 1..Len(fig.data) :
        /\ fig.data[i][GroupColumn] \in TableKeys
        /\ fig.data[i].total_amount = TableTotal(fig.data[i][GroupColumn])
    /\ \A i, j \in 1..Len(fig.data) :
        i # j => fig.data[i][GroupColumn] # fig.data[j][GroupColumn]
    /\ value = "State wise Bribe data" => ReturnedKeys = TableKeys

\* C6 as stated: the groups carry the sum per key and each row's total is
\* greater than the next row's, also when groups have equal totals.
C6_StrictlyDescending ==
    GroupedReturned =>
        /\ RowsAreGroupSums
        /\ \A i \in 1..(Len(fig.data) - 1) :
            fig.data[i].total_amount > fig.data[i + 1].total_amount

\* C6 (amended): the groups carry the sum of amounts per distinct key and are
\* sorted descending by summed amount, each row's total being greater than or
\* equal to the next row's: groups with equal totals are adjacent, in either
\* order.
C6_SumsSortedDescending ==
    GroupedReturned =>
        /\ RowsAreGroupSums
        /\ \A i \in 1..(Len(fig.data) - 1) :
            fig.data[i].total_amount >= fig.data[i + 1].total_amount

\* C6 witness: a state chart with three groups, two of them with equal totals.
C6_Witness ==
    /\ GroupedReturned
    /\ value = "State wise Bribe data"
    /\ Len(fig.data) = 3
    /\ fig.data[1].total_amount > fig.data[2].total_amount
    /\ fig.data[2].total_amount = fig.data[3].total_amount

\* C7: the department and district charts have at most top_n groups, namely
\* the first top_n of the sorted groups: all groups if there are no more than
\* top_n, and no omitted group has a larger total than a returned one (with
\* top_n = 0 no group is returned and the function returns None).
C7_TopNCap ==
    /\ pc = "returned" /\ GroupColumn # "none" /\ top_n = 0 /\ value # "State wise Bribe data"
         => fig = None
    /\ GroupedReturned /\ value # "State wise Bribe data" =>
        /\ Len(fig.data) = Min(top_n, Cardinality(TableKeys))
        /\ ReturnedKeys \subseteq TableKeys
        /\ \A k \in TableKeys \ ReturnedKeys :
            \A i \in 1..Len(fig.data) : TableTotal(k) <= fig.data[i].total_amount

\* C7 witness: three districts, the largest two returned and the third cut off.
C7_Witness ==
    /\ GroupedReturned
    /\ value = "Top 20 Districts"
    /\ top_n = 2
    /\ Cardinality(TableKeys) = 3
    /\ Len(fig.data) = 2

(***************************************************************************)
(* Properties of reports over time (specification SpecTime).               *)
(***************************************************************************)
Dois == [i \in 1..Len(table) |-> table[i].doi]

\* v is text that names a day of the calendar.
IsDate(v) ==
    /\ v.kind = "ymd"
    /\ v.m >= 1 /\ v.m <= 12
    /\ v.d >= 1
    /\ v.d <= (IF v.m = 2 THEN (IF IsLeap(v.y) THEN 29 ELSE 28)
               ELSE IF v.m \in {4, 6, 9, 11} THEN 30 ELSE 31)

Months == {<<table[i].doi.y, table[i].doi.m>> : i \in {j \in 1..Len(table) : IsDate(table[j].doi)}}

InMonth(ym) ==
    Cardinality({i \in 1..Len(table) :
        IsDate(table[i].doi) /\ <<table[i].doi.y, table[i].doi.m>> = ym})

\* "YYYY-MM" as its characters.
MonthLabel(ym) ==
    <<48 + (ym[1] \div 1000), 48 + ((ym[1] \div 100) % 10), 48 + ((ym[1] \div 10) % 10),
      48 + (ym[1] % 10), 45, 48 + (ym[2] \div 10), 48 + (ym[2] % 10)>>

OverTimeReturned == pc = "returned" /\ value = "Bribes over time"

\* C8: rows whose date does not parse are left out without an error; the
\* remaining dates are counted per calendar month, one label per month, in
\* ascending chronological order; with no row left the function returns None.
\* Dates 2023-01-15, bad-date, 2023-01-20, 2023-02-01 give ("2023-01", 2),
\* ("2023-02", 1).
C8_MonthlySeries ==
    OverTimeReturned =>
        /\ Months = {} <=> fig = None
        /\ fig # None =>
            /\ Len(fig.data) = Cardinality(Months)
            /\ \A i \in 1..Len(fig.data) :
                \E ym \in Months :
                    /\ fig.data[i].month_year = MonthLabel(ym)
                    /\ fig.data[i].count = InMonth(ym)
                    /\ \A j \in (i + 1)..Len(fig.data) :
                        \E later \in Months :
                            /\ fig.data[j].month_year = MonthLabel(later)
                            /\ ym[1] * 12 + ym[2] < later[1] * 12 + later[2]
        /\ Dois = <<Ymd(2023, 1, 15), JunkDoi, Ymd(2023, 1, 20), Ymd(2023, 2, 1)>> =>
            fig.data = <<[month_year |-> MonthLabel(<<2023, 1>>), count |-> 2],
                         [month_year |-> MonthLabel(<<2023, 2>>), count |-> 1]>>

\* C8 witness: the series for 2023-01-15, bad-date, 2023-01-20, 2023-02-01.
C8_Witness ==
    /\ OverTimeReturned
    /\ Dois = <<Ymd(2023, 1, 15), JunkDoi, Ymd(2023, 1, 20), Ymd(2023, 2, 1)>>
    /\ Len(fig.data) = 2

\* C8 witness of the other outcome: rows were fetched, none of them a date,
\* and the function returned None.
C8_NoValidDates ==
    /\ OverTimeReturned
    /\ df.rows # <<>>
    /\ fig = None

(***************************************************************************)
(* Concurrent requests sharing the pool (specification SpecPool).  The     *)
(* server handles each request on a thread of its own; the threads run the *)
(* same code, so the state records how many are at each position:          *)
(*   start       about to call connection_pool.getconn()                   *)
(*   connecting  inside getconn, opening a new connection                  *)
(*   execute     holding a connection, about to execute                    *)
(*   finally     holding a connection, in the finally clause               *)
(*   done        get_data_as_dataframe left, by return or by an exception  *)
(*               other than PoolError                                      *)
(*   exhausted   getconn raised PoolError("connection pool exhausted")     *)
(* SimpleConnectionPool takes no lock: between getconn's test of           *)
(* len(_used) and its entry of the new connection in _used lies the        *)
(* connection attempt, during which other threads run.                     *)
(***************************************************************************)
Move(from, to) ==
    /\ threads[from] > 0
    /\ threads' = [threads EXCEPT ![from] = @ - 1, ![to] = @ + 1]

Sequential == <<table, pc, value, top_n, conn, exc, df, fig, executes, queries, calls, failed>>

\* connection_pool.getconn() up to the connection attempt.
ThreadGetConn ==
    /\ \/ /\ idle > 0
          /\ idle' = idle - 1
          /\ used' = used + 1
          /\ Move("start", "execute")
       \/ /\ idle = 0
          /\ used = maxconn
          /\ Move("start", "exhausted")
          /\ UNCHANGED <<idle, used>>
       \/ /\ idle = 0
          /\ used # maxconn
          /\ Move("start", "connecting")
          /\ UNCHANGED <<idle, used>>
    /\ UNCHANGED Sequential

\* The connection attempt: the new connection is entered in _used, or the
\* attempt raises.
ThreadConnect ==
    /\ \/ /\ used' = used + 1
          /\ Move("connecting", "execute")
       \/ /\ used' = used
          /\ Move("connecting", "done")
    /\ UNCHANGED <<idle>>
    /\ UNCHANGED Sequential

\* cur.execute and cur.fetchall, returning rows or raising.
ThreadExecute ==
    /\ Move("execute", "finally")
    /\ UNCHANGED <<idle, used>>
    /\ UNCHANGED Sequential

\* connection_pool.putconn(conn) in the finally clause: the connection leaves
\* _used and is kept idle or closed.
ThreadFinally ==
    /\ Move("finally", "done")
    /\ used' = used - 1
    /\ \/ idle' = (IF idle < minconn THEN idle + 1 ELSE idle)
       \/ idle' = idle
    /\ UNCHANGED Sequential

InitPool ==
    /\ table = <<>>
    /\ idle = minconn
    /\ used = 0
    /\ pc = "idle"
    /\ value = "Bribe distribution"
    /\ top_n = 0
    /\ conn = "None"
    /\ exc = "none"
    /\ df = EmptyDataFrame
    /\ fig = EmptyDict
    /\ executes = 0
    /\ queries = 0
    /\ calls = 0
    /\ failed = 0
    /\ threads = [NoThreads EXCEPT !["start"] = MaxThreads]

NextPool ==
    \/ ThreadGetConn
    \/ ThreadConnect
    \/ ThreadExecute
    \/ ThreadFinally

SpecPool == InitPool /\ [][NextPool]_vars

\* C9: under any interleaving of concurrent requests at most maxconn
\* connections are borrowed at a time, every borrowed connection is held by
\* exactly one request, a request that finds no free connection waits (it does
\* not fail), and when all requests are over no connection is borrowed.
C9_BoundedExclusiveWaiting ==
    /\ used <= maxconn
    /\ threads["execute"] + threads["finally"] = used
    /\ threads["exhausted"] = 0
    /\ threads["start"] + threads["connecting"] + threads["execute"] + threads["finally"] = 0
         => used = 0

====
